---- MODULE Spec2Model ----
(***************************************************************************)
(* Model of the vector Merkle tree of src/src/lib.rs.                      *)
(*                                                                         *)
(* A byte vector (Vec<u8>, &[u8]) is a sequence of bytes.  The bytes of a  *)
(* leaf value are small integers.  The digest algorithm is the external    *)
(* collaborator (ring::digest); it is modelled as a collision-free hash of *)
(* OutputLen bytes: the first byte of the digest of an input is the pair   *)
(* <<input, 1>>, the k-th byte is <<<<>>, k>>.  Two digests are equal      *)
(* exactly when their inputs are equal, and any OutputLen bytes (also      *)
(* bytes that are the digest of nothing) form a chunk that can be sliced,  *)
(* compared and hashed again.                                              *)
(***************************************************************************)
EXTENDS Integers, Sequences, FiniteSets, TLC

VARIABLES pc, values, tree, query, proof, vinput, vresult

vars == <<pc, values, tree, query, proof, vinput, vresult>>

\* ---- bounds -------------------------------------------------------------
\* algo.output_len: the digest length in bytes
OutputLen == 2
\* longest input list
MaxLen == 6
\* number of different leaf values an input list draws from
NumValues == 2

\* ---- Option<T> ----------------------------------------------------------
None == <<>>
Some(x) == <<x>>

\* a leaf value: one raw byte
Value(v) == <<v>>
\* the values that may occur in an input list
Values == {Value(v) : v \in 1..NumValues}
\* the values that are asked for: one more than may occur in any list
Queries == {Value(v) : v \in 1..(NumValues + 1)}

RECURSIVE ListsOfLen(_)
ListsOfLen(n) ==
    IF n = 0 THEN {<<>>}
    ELSE {Append(l, v) : l \in ListsOfLen(n - 1), v \in Values}

Lists == UNION {ListsOfLen(n) : n \in 0..MaxLen}

\* ---- ring::digest -------------------------------------------------------
\* Context::new(algo); ctx.update(..); ctx.finish(): OutputLen bytes that
\* are determined by the input, different for different inputs
Digest(input) == [k \in 1..OutputLen |-> IF k = 1 THEN <<input, 1>> ELSE <<<<>>, k>>]

\* The order of u8 values (left[i] > right[i]).  Digest bytes are ordered by
\* their position in the digest; two first bytes are ordered by the inputs
\* they stand for (shorter inputs first, then byte by byte).  Raw value bytes
\* are integers.
RECURSIVE ByteLess(_, _)
RECURSIVE InputLess(_, _, _)
InputLess(p, q, i) ==
    IF i > Len(p) THEN FALSE
    ELSE IF Len(p) < 2 * OutputLen
         THEN \/ p[i] < q[i]
              \/ p[i] = q[i] /\ InputLess(p, q, i + 1)
         ELSE \/ ByteLess(p[i], q[i])
              \/ p[i] = q[i] /\ InputLess(p, q, i + 1)

ByteLess(a, b) ==
    IF a[2] # b[2] THEN a[2] < b[2]
    ELSE IF Len(a[1]) # Len(b[1]) THEN Len(a[1]) < Len(b[1])
    ELSE InputLess(a[1], b[1], 1)

\* vec[a..b] of Rust, 0-based and half-open; panics when out of range
InRange(vec, a, b) == a <= b /\ b <= Len(vec)
Slice(vec, a, b) == SubSeq(vec, a + 1, b)

\* ---- free functions of lib.rs --------------------------------------------
get_hash(x) == Digest(x)

\* the loop of get_pair_hash: TRUE when left and right are swapped
RECURSIVE pair_swapped(_, _, _)
pair_swapped(left, right, i) ==
    IF i >= OutputLen THEN FALSE
    ELSE IF ByteLess(right[i + 1], left[i + 1]) THEN TRUE
    ELSE IF ByteLess(left[i + 1], right[i + 1]) THEN FALSE
    ELSE pair_swapped(left, right, i + 1)

\* get_pair_hash without the sort of left and right
get_pair_hash_unsorted(x, y) == Digest(x \o y)

get_pair_hash(x, y) ==
    IF pair_swapped(x, y, 0) THEN Digest(y \o x) ELSE Digest(x \o y)

\* calculate_relatives that takes the right neighbour as the sibling of every node
calculate_relatives_right(index) ==
    LET sibling == index + 1
        parent == ((index + 1 + ((index + 1) % 2)) \div 2) - 1
    IN  <<sibling, parent>>

calculate_relatives(index) ==
    LET sibling == IF index % 2 = 0 THEN index + 1 ELSE index - 1
        parent == ((index + 1 + ((index + 1) % 2)) \div 2) - 1
    IN  <<sibling, parent>>

RECURSIVE vec_len_loop(_, _)
vec_len_loop(level, result) ==
    IF level > 1
    THEN LET next == (level + (level % 2)) \div 2
         IN  vec_len_loop(next, result + next)
    ELSE result

\* the capacity the array is created with (Vec::with_capacity); the array
\* grows beyond it when an upper level is padded
calculate_vec_len(len) ==
    vec_len_loop(len + (len % 2), len + (len % 2)) * OutputLen

\* the for loop of build_level: appends the hash of every pair of the
\* previous level to the tree
RECURSIVE level_loop(_, _, _, _)
level_loop(t, prev_level_start, i, level_len) ==
    IF i >= level_len THEN t
    ELSE LET begin == prev_level_start * OutputLen + i * 2 * OutputLen
             middle == begin + OutputLen
             end == middle + OutputLen
             hash == get_pair_hash(Slice(t, begin, middle), Slice(t, middle, end))
         IN  level_loop(t \o hash, prev_level_start, i + 1, level_len)

\* build_level that pads an odd level with a copy of its first item
RECURSIVE build_level_pad_first(_, _, _)
build_level_pad_first(t, prev_level_start, len) ==
    LET odd == len % 2 = 1
        prev == Slice(t, prev_level_start * OutputLen, prev_level_start * OutputLen + OutputLen)
        padded == IF odd THEN t \o prev ELSE t
        prev_level_len == IF odd THEN len + 1 ELSE len
        level_len == prev_level_len \div 2
        t2 == level_loop(padded, prev_level_start, 0, level_len)
    IN  IF level_len > 1
        THEN LET r == build_level_pad_first(t2, prev_level_start + prev_level_len, level_len)
             IN  [tree |-> r.tree, height |-> r.height + 1]
        ELSE IF level_len > 0
        THEN [tree |-> t2, height |-> 2]
        ELSE [tree |-> t2, height |-> 0]

\* build_level(&mut tree, ..) -> usize: the tree after the call and the
\* returned height
RECURSIVE build_level(_, _, _)
build_level(t, prev_level_start, len) ==
    LET odd == len % 2 = 1
        prev == Slice(t, prev_level_start * OutputLen + (len - 1) * OutputLen, Len(t))
        padded == IF odd THEN t \o prev ELSE t
        prev_level_len == IF odd THEN len + 1 ELSE len
        level_len == prev_level_len \div 2
        t2 == level_loop(padded, prev_level_start, 0, level_len)
    IN  IF level_len > 1
        THEN LET r == build_level(t2, prev_level_start + prev_level_len, level_len)
             IN  [tree |-> r.tree, height |-> r.height + 1]
        ELSE IF level_len > 0
        THEN [tree |-> t2, height |-> 2]
        ELSE [tree |-> t2, height |-> 0]

\* the leaf loop of build_tree: the leaf digests in input order, and the
\* map from digest to position (a later insert of the same digest replaces
\* the earlier one)
RECURSIVE hash_leafs(_, _, _, _)
hash_leafs(vals, i, t, map) ==
    IF i >= Len(vals) THEN [tree |-> t, map |-> map]
    ELSE LET hash == get_hash(vals[i + 1])
         IN  hash_leafs(vals, i + 1, t \o hash,
                        IF map = None THEN None
                        ELSE Some((hash :> i) @@ map[1]))

build_tree(vals, use_map) ==
    LET leafs == hash_leafs(vals, 0, <<>>, IF use_map THEN Some(<<>>) ELSE None)
        built == build_level(leafs.tree, 0, Len(vals))
    IN  [height |-> built.height, array |-> built.tree, map |-> leafs.map]

\* ---- MerkleTree -----------------------------------------------------------
\* new_with_flag that stores the padded length of the leaf level as items_count
new_with_flag_padded_count(vals, use_map) ==
    LET b == build_tree(vals, use_map)
    IN  [array |-> b.array, height |-> b.height,
         items_count |-> Len(vals) + (Len(vals) % 2), map |-> b.map]

new_with_flag(vals, use_map) ==
    LET b == build_tree(vals, use_map)
    IN  [array |-> b.array, height |-> b.height,
         items_count |-> Len(vals), map |-> b.map]

new(vals) == new_with_flag(vals, FALSE)

new_with_map(vals) == new_with_flag(vals, TRUE)

nodes_count(self) == Len(self.array) \div OutputLen

leafs_count(self) == self.items_count

data_size(self) == Len(self.array)

height(self) == self.height

is_empty(self) == nodes_count(self) = 0

\* get_root with a root_index that is one digest too low
get_root_one_before(self) ==
    IF is_empty(self) THEN <<>>
    ELSE Slice(self.array, Len(self.array) - 2 * OutputLen, Len(self.array) - OutputLen)

get_root(self) ==
    IF is_empty(self) THEN <<>>
    ELSE Slice(self.array, Len(self.array) - OutputLen, Len(self.array))

\* the linear search of find_item with a loop that starts at index 1
RECURSIVE find_linear_from_one(_, _, _)
find_linear_from_one(self, hash, index) ==
    IF index = 0 THEN find_linear_from_one(self, hash, 1)
    ELSE IF index >= self.items_count THEN None
    ELSE LET start == index * OutputLen
         IN  IF hash = Slice(self.array, start, start + OutputLen)
             THEN Some(index)
             ELSE find_linear_from_one(self, hash, index + 1)

\* the linear search of find_item
RECURSIVE find_linear(_, _, _)
find_linear(self, hash, index) ==
    IF index >= self.items_count THEN None
    ELSE LET start == index * OutputLen
         IN  IF hash = Slice(self.array, start, start + OutputLen)
             THEN Some(index)
             ELSE find_linear(self, hash, index + 1)

find_item(self, hash) ==
    IF self.map # None
    THEN IF hash \in DOMAIN self.map[1] THEN Some(self.map[1][hash]) ELSE None
    ELSE find_linear(self, hash, 0)

\* add_level: the proof, or a panic when a slice of the array is out of range
RECURSIVE add_level(_, _, _, _, _)
add_level(self, start_index, index, len, result) ==
    LET level_len == len + (len % 2)
        rel == calculate_relatives(index)
        sibling == rel[1]
        parent == rel[2]
        from == start_index + sibling * OutputLen
        next_level_len == level_len \div 2
    IN  IF ~InRange(self.array, from, from + OutputLen)
        THEN [panic |-> TRUE, value |-> None]
        ELSE LET r == result \o Slice(self.array, from, from + OutputLen)
             IN  IF next_level_len = 1
                 THEN [panic |-> FALSE, value |-> Some(r)]
                 ELSE add_level(self, start_index + level_len * OutputLen,
                                parent, next_level_len, r)

build_proof(self, value) ==
    LET hash == get_hash(value)
        index == find_item(self, hash)
    IN  IF index = None THEN [panic |-> FALSE, value |-> None]
        ELSE LET i == index[1]
             IN  IF ~InRange(self.array, i * OutputLen, i * OutputLen + OutputLen)
                 THEN [panic |-> TRUE, value |-> None]
                 ELSE add_level(self, 0, i, self.items_count,
                                Slice(self.array, i * OutputLen, i * OutputLen + OutputLen))

get_slice(vec, i) == Slice(vec, i * OutputLen, i * OutputLen + OutputLen)

\* get_slice panics when the i-th chunk is not wholly inside vec
get_slice_ok(vec, i) == InRange(vec, i * OutputLen, i * OutputLen + OutputLen)

\* the for loop of validate with a range that ends one chunk early
RECURSIVE validate_loop_short(_, _, _)
validate_loop_short(p, hash, i) ==
    IF i >= (Len(p) \div OutputLen) - 1 THEN hash
    ELSE validate_loop_short(p, get_pair_hash(hash, get_slice(p, i)), i + 1)

\* the for loop of validate
RECURSIVE validate_loop(_, _, _)
validate_loop(p, hash, i) ==
    IF i >= Len(p) \div OutputLen THEN hash
    ELSE validate_loop(p, get_pair_hash(hash, get_slice(p, i)), i + 1)

validate(self, p) ==
    IF ~(get_slice_ok(p, 0) /\ get_slice_ok(p, 1))
    THEN [panic |-> TRUE, ok |-> FALSE]
    ELSE LET hash == validate_loop(p, get_pair_hash(get_slice(p, 0), get_slice(p, 1)), 2)
         IN  [panic |-> FALSE, ok |-> (hash = get_root(self))]

\* ---- the callers ----------------------------------------------------------
\* The caller is the one of the tests: it has a list of values (pc = "start"),
\* builds a tree over it with one of the constructors ("built"), may ask for
\* the proof of one value ("proved") and hands one byte vector to validate
\* ("validated").  The tree is immutable, so further calls would only
\* overwrite the record of the earlier ones.
Init ==
    /\ pc = "start"
    /\ values \in Lists
    /\ tree = [array |-> <<>>, height |-> 0, items_count |-> 0, map |-> None]
    /\ query = None
    /\ proof = [panic |-> FALSE, value |-> None]
    /\ vinput = None
    /\ vresult = [panic |-> FALSE, ok |-> FALSE]

New ==
    /\ pc = "start"
    /\ pc' = "built"
    /\ tree' = new(values)
    /\ UNCHANGED <<values, query, proof, vinput, vresult>>

NewWithMap ==
    /\ pc = "start"
    /\ pc' = "built"
    /\ tree' = new_with_map(values)
    /\ UNCHANGED <<values, query, proof, vinput, vresult>>

BuildProof ==
    /\ pc = "built"
    /\ pc' = "proved"
    /\ \E v \in Queries :
          /\ query' = Some(v)
          /\ proof' = build_proof(tree, v)
          /\ UNCHANGED <<values, tree, vinput, vresult>>

\* ---- the byte vectors a caller hands to validate ---------------------------
\* the digest of a value that occurs in no input list
Foreign == get_hash(Value(NumValues + 1))

\* OutputLen bytes that are the digest of nothing: the bytes of Foreign rotated
Mixed == [k \in 1..OutputLen |-> Foreign[(k % OutputLen) + 1]]

\* the chunks of the array of a tree
Nodes(self) == {get_slice(self.array, i) : i \in 0..(nodes_count(self) - 1)}

Pool(self) == Nodes(self) \cup {Foreign, Mixed}

\* p with its i-th chunk (from 0) replaced by the chunk d
ReplaceChunk(p, i, d) ==
    [k \in 1..Len(p) |->
        IF k > i * OutputLen /\ k <= (i + 1) * OutputLen THEN d[k - i * OutputLen] ELSE p[k]]

\* p with its first j + 1 chunks replaced by the one chunk they fold to
RECURSIVE Fold(_, _)
Fold(p, j) ==
    IF j = 1 THEN get_pair_hash(get_slice(p, 0), get_slice(p, 1))
    ELSE get_pair_hash(Fold(p, j - 1), get_slice(p, j))

Collapse(p, j) == Fold(p, j) \o SubSeq(p, (j + 1) * OutputLen + 1, Len(p))

Built == IF proof.value = None THEN <<>> ELSE proof.value[1]

\* p with one chunk replaced by another chunk
Replaced(p) ==
    {ReplaceChunk(p, i, d) : i \in 0..((Len(p) \div OutputLen) - 1), d \in Pool(tree)} \ {p}

\* p with one more chunk
Appended(p) == {p \o d : d \in Pool(tree)}

Tampered(p) == Replaced(p) \cup Appended(p)

\* p cut to any shorter byte length, and p with a part of a chunk appended
Truncated(p) == {SubSeq(p, 1, n) : n \in 0..(Len(p) - 1)}

Ragged(p) == {p \o SubSeq(d, 1, k) : d \in {Foreign, Mixed}, k \in 1..(OutputLen - 1)}

Malformed ==
    IF proof.value = None
    THEN Truncated(Foreign \o Mixed) \cup Ragged(Foreign \o Mixed)
    ELSE Truncated(Built) \cup Ragged(Built)

\* the chunk sequences that start at a node above the leaf a proof starts at
Collapsed(p) == {Collapse(p, j) : j \in 1..((Len(p) \div OutputLen) - 2)}

\* n chunks of the array of the tree that lie next to each other, from chunk i
Window(i, n) == Slice(tree.array, i * OutputLen, (i + n) * OutputLen)

Windows ==
    {Window(w[1], w[2]) :
        w \in {x \in (0..(nodes_count(tree) - 2)) \X (2..3) : x[1] + x[2] <= nodes_count(tree)}}

\* two chunks of the array in the other order
Swapped == {get_slice(Window(i, 2), 1) \o get_slice(Window(i, 2), 0) :
               i \in 0..(nodes_count(tree) - 2)}

WellFormedInputs ==
    IF proof.value = None
    THEN Windows \cup Swapped \cup {Foreign \o Mixed}
    ELSE {Built} \cup Collapsed(Built) \cup UNION {Appended(p) : p \in Collapsed(Built)}

\* one call of validate: its argument and its result are recorded
ValidateCall(p) ==
    /\ pc' = "validated"
    /\ vinput' = Some(p)
    /\ vresult' = validate(tree, p)
    /\ UNCHANGED <<values, tree, query, proof>>

\* validate of the proof build_proof returned
ValidateBuilt ==
    /\ pc = "proved"
    /\ proof.value # None
    /\ ValidateCall(Built)

\* validate of a proof with one chunk replaced or one chunk appended
ValidateTampered ==
    /\ pc = "proved"
    /\ proof.value # None
    /\ \E p \in Tampered(Built) : ValidateCall(p)

\* validate of a byte vector that is not a sequence of two or more chunks
ValidateMalformed ==
    /\ pc \in {"built", "proved"}
    /\ \E p \in Malformed : ValidateCall(p)

\* validate of a sequence of chunks that is not a proof build_proof returned
ValidateOther ==
    /\ pc \in {"built", "proved"}
    /\ \E p \in WellFormedInputs : ValidateCall(p)

Next ==
    \/ New
    \/ NewWithMap
    \/ BuildProof
    \/ ValidateBuilt
    \/ ValidateTampered
    \/ ValidateMalformed
    \/ ValidateOther

Spec == Init /\ [][Next]_vars

\* construction and build_proof only
NextBuild ==
    \/ New
    \/ NewWithMap
    \/ BuildProof

SpecBuild == Init /\ [][NextBuild]_vars

\* build_proof and validate of its result
NextProof ==
    \/ New
    \/ NewWithMap
    \/ BuildProof
    \/ ValidateBuilt

SpecProof == Init /\ [][NextProof]_vars

\* build_proof and validate of a tampered proof
NextTamper ==
    \/ New
    \/ NewWithMap
    \/ BuildProof
    \/ ValidateTampered

SpecTamper == Init /\ [][NextTamper]_vars

\* build_proof and validate of a malformed byte vector
NextMalformed ==
    \/ New
    \/ NewWithMap
    \/ BuildProof
    \/ ValidateMalformed

SpecMalformed == Init /\ [][NextMalformed]_vars

\* build_proof and validate of other chunk sequences
NextOther ==
    \/ New
    \/ NewWithMap
    \/ BuildProof
    \/ ValidateOther

SpecOther == Init /\ [][NextOther]_vars

\* ---- reference definitions used by the properties --------------------------
OkTrue == [panic |-> FALSE, ok |-> TRUE]
OkFalse == [panic |-> FALSE, ok |-> FALSE]

InInput(v) == \E i \in 1..Len(values) : values[i] = v

Reverse(l) == [i \in 1..Len(l) |-> l[Len(l) + 1 - i]]

\* number of whole chunks of a byte vector
ChunksOf(p) == Len(p) \div OutputLen

WellFormed(p) == Len(p) % OutputLen = 0 /\ ChunksOf(p) >= 2

\* the lengths of the stored levels of a tree over n values, leaf level first
RECURSIVE LevelLens(_)
LevelLens(n) ==
    IF n = 0 THEN <<>>
    ELSE LET padded == n + (n % 2)
         IN  IF padded \div 2 = 1 THEN <<padded, 1>>
             ELSE <<padded>> \o LevelLens(padded \div 2)

RECURSIVE SumTo(_, _)
SumTo(lens, k) == IF k = 0 THEN 0 ELSE lens[k] + SumTo(lens, k - 1)

\* the k-th node (from 0) of level l (from 0) of the array
NodeAt(self, l, k) == get_slice(self.array, SumTo(LevelLens(self.items_count), l) + k)

LevelNodes(self, l) ==
    {NodeAt(self, l, k) : k \in 0..(LevelLens(self.items_count)[l + 1] - 1)}

\* the root by the textbook construction on a list of digests
RECURSIVE ReduceLevel(_)
ReduceLevel(level) ==
    LET padded == IF Len(level) % 2 = 1 THEN Append(level, level[Len(level)]) ELSE level
        next == [k \in 1..(Len(padded) \div 2) |->
                    get_pair_hash(padded[2 * k - 1], padded[2 * k])]
    IN  IF Len(next) = 1 THEN next[1] ELSE ReduceLevel(next)

ReferenceRoot(vals) ==
    IF Len(vals) = 0 THEN <<>>
    ELSE ReduceLevel([i \in 1..Len(vals) |-> get_hash(vals[i])])

\* ---- C1 ---------------------------------------------------------------------
\* C1: build_proof of a value that occurs in the input returns Some(proof)
\* without a panic, and validate of that very proof on the same tree returns
\* true, for both constructors.
C1_RoundTrip ==
    (query # None /\ InInput(query[1])) =>
        /\ proof.panic = FALSE
        /\ proof.value # None
        /\ vinput = proof.value => vresult = OkTrue

C1_Witness ==
    /\ Len(values) = 5
    /\ tree.map # None
    /\ query = Some(values[5])
    /\ proof.value # None
    /\ vinput = proof.value
    /\ vresult = OkTrue

\* ---- C2 ---------------------------------------------------------------------
\* C2: the tree built by the other constructor over the same values has the
\* same root, and build_proof of the queried value gives the same result on it.
OtherTree == new_with_flag(values, tree.map = None)

C2_ModeEquivalence ==
    pc # "start" =>
        /\ get_root(tree) = get_root(OtherTree)
        /\ query # None => proof = build_proof(OtherTree, query[1])

\* ---- C3 ---------------------------------------------------------------------
\* C3: validate of a byte vector shorter than two chunks returns false and
\* does not panic, on every tree.
C3_ShortProofFalse ==
    (vinput # None /\ Len(vinput[1]) < 2 * OutputLen) => vresult = OkFalse

\* ---- C4 ---------------------------------------------------------------------
\* C4: validate of a byte vector of at least two chunks whose length is not a
\* multiple of the digest length returns false.
C4_RaggedProofFalse ==
    (vinput # None /\ Len(vinput[1]) >= 2 * OutputLen /\ Len(vinput[1]) % OutputLen # 0)
        => vresult = OkFalse

\* ---- C5 ---------------------------------------------------------------------
\* C5: build_proof returns Some exactly when the value occurs in the input
\* list, and never panics; on the empty tree it returns None for every value.
C5_SomeIffPresent ==
    query # None =>
        /\ proof.panic = FALSE
        /\ proof.value # None <=> InInput(query[1])
        /\ Len(values) = 0 => proof.value = None

C5_Witness ==
    /\ Len(values) = 0
    /\ query # None
    /\ proof = [panic |-> FALSE, value |-> None]

\* ---- C6 ---------------------------------------------------------------------
\* C6: get_root is empty exactly for the empty input; otherwise it is the last
\* digest of the array and equals the root of the textbook construction (pad
\* an odd level with a copy of its last digest, hash adjacent pairs).
C6_RootCorrect ==
    pc # "start" =>
        /\ get_root(tree) = <<>> <=> Len(values) = 0
        /\ Len(values) > 0 =>
              /\ get_root(tree) = get_slice(tree.array, (Len(tree.array) \div OutputLen) - 1)
              /\ get_root(tree) = ReferenceRoot(values)
        /\ Len(values) = 1 =>
              get_root(tree) = get_pair_hash(get_hash(values[1]), get_hash(values[1]))
        /\ Len(values) = 3 =>
              get_root(tree) =
                  get_pair_hash(get_pair_hash(get_hash(values[1]), get_hash(values[2])),
                                get_pair_hash(get_hash(values[3]), get_hash(values[3])))

C6_Witness ==
    /\ pc # "start"
    /\ Len(values) = 5
    /\ values[5] # values[4]
    /\ get_root(tree) = ReferenceRoot(values)
    /\ get_root(tree) # <<>>

\* ---- C7 ---------------------------------------------------------------------
\* C7: leafs_count is the input length; height is the number of stored levels;
\* nodes_count is the sum of the stored level lengths; every stored level but
\* the root level has even length: it holds its nodes (the leaf digests, or
\* the pair hashes of the level below) and, when they are odd in number, a copy
\* of the last one; data_size = nodes_count * output_len;
\* is_empty exactly for the empty input.
ShapeTable(n) ==
    IF n = 0 THEN <<0, 0>>
    ELSE IF n <= 2 THEN <<2, 3>>
    ELSE IF n <= 4 THEN <<3, 7>>
    ELSE IF n <= 6 THEN <<4, 13>>
    ELSE <<4, 15>>

C7_Shape ==
    LET n == Len(values)
        lens == LevelLens(n)
    IN  pc # "start" =>
        /\ leafs_count(tree) = n
        /\ height(tree) = Len(lens)
        /\ nodes_count(tree) = SumTo(lens, Len(lens))
        /\ data_size(tree) = nodes_count(tree) * OutputLen
        /\ is_empty(tree) <=> n = 0
        /\ n <= 8 => <<height(tree), nodes_count(tree)>> = ShapeTable(n)
        /\ \A l \in 1..(Len(lens) - 1) : lens[l] % 2 = 0
        /\ \A l \in 1..(Len(lens) - 1) : \A k \in 0..((lens[l] \div 2) - 1) :
              NodeAt(tree, l, k) =
                  get_pair_hash(NodeAt(tree, l - 1, 2 * k), NodeAt(tree, l - 1, 2 * k + 1))
        /\ \A l \in 1..(Len(lens) - 1) :
              lens[l + 1] # lens[l] \div 2 =>
                  /\ lens[l + 1] = (lens[l] \div 2) + 1
                  /\ NodeAt(tree, l, lens[l + 1] - 1) = NodeAt(tree, l, lens[l + 1] - 2)
        /\ \A k \in 0..(n - 1) : NodeAt(tree, 0, k) = get_hash(values[k + 1])
        /\ n % 2 = 1 => NodeAt(tree, 0, n) = NodeAt(tree, 0, n - 1)

C7_Witness ==
    /\ pc # "start"
    /\ Len(values) = 5
    /\ height(tree) = 4
    /\ nodes_count(tree) = 13
    /\ leafs_count(tree) = 5

\* ---- C8 ---------------------------------------------------------------------
\* C8: for an input of length 2, 4 or 8 the tree over the reversed input has the
\* same root as the tree over the input.
C8_Reversal ==
    (pc # "start" /\ Len(values) \in {2, 4, 8}) =>
        /\ get_root(new(Reverse(values))) = get_root(tree)
        /\ get_root(new_with_map(Reverse(values))) = get_root(tree)

C8_Witness ==
    /\ pc # "start"
    /\ Len(values) = 4
    /\ values[1] # values[4]
    /\ values[2] # values[3]
    /\ get_root(new(Reverse(values))) = get_root(tree)

\* ---- C9 ---------------------------------------------------------------------
\* C9: a proof returned by build_proof with one chunk replaced by a different
\* chunk, or with one more chunk appended, is rejected by validate.
IsReplaced(p, q) ==
    /\ Len(q) = Len(p)
    /\ \E i \in 0..(ChunksOf(p) - 1) :
          /\ get_slice(q, i) # get_slice(p, i)
          /\ \A j \in 0..(ChunksOf(p) - 1) : j # i => get_slice(q, j) = get_slice(p, j)

IsAppended(p, q) ==
    /\ Len(q) = Len(p) + OutputLen
    /\ SubSeq(q, 1, Len(p)) = p

C9_TamperDetected ==
    (proof.value # None /\ vinput # None
        /\ (IsReplaced(Built, vinput[1]) \/ IsAppended(Built, vinput[1])))
        => vresult = OkFalse

C9_Witness ==
    /\ Len(values) = 5
    /\ proof.value # None
    /\ vinput # None
    /\ IsReplaced(Built, vinput[1])
    /\ get_slice(vinput[1], 0) # get_slice(Built, 0)
    /\ get_slice(vinput[1], 0) \in LevelNodes(tree, 0)
    /\ vresult = OkFalse

====
